---- MODULE Spec2Model ----
(***************************************************************************)
(* Model of pulsar-client-go's consumer-side flow control:                 *)
(*   - memoryLimitController, package internal                             *)
(*   - the grouped ackGroupingTracker (MaxSize > 1), package pulsar        *)
(* The two components share no state.  SpecMLC runs the controller under   *)
(* concurrent callers.  SpecAck runs the tracker loop with one calling     *)
(* thread and every id of a small topic, SpecCallers runs it with several  *)
(* calling threads and a few ids, SpecTimed is SpecCallers with the        *)
(* fairness of the ticker and of the blocked receivers.                    *)
(* chCond and the MessageID helpers (messageIDCompare, messageIDHash,      *)
(* messageIDIsBatch, EarliestMessageID) are described as the design        *)
(* document describes them.                                                *)
(***************************************************************************)
EXTENDS Integers, Sequences, FiniteSets, TLC

(***************************************************************************)
(* Bounds of the controller model.                                         *)
(***************************************************************************)
NumThreads == 2    \* concurrent callers of the controller
MaxCalls == 3      \* calls started over a whole run, all threads together
MaxReserve == 2    \* sizes passed to the operations are 1..MaxReserve
MaxLimit == 1      \* the positive limit; limit is 0 (unlimited) or MaxLimit

(***************************************************************************)
(* Bounds of the tracker model.                                            *)
(***************************************************************************)
MaxSize == 3           \* options.MaxSize of the grouped tracker (> 1)
MaxMessage == 4        \* the topic holds the entries 0..MaxMessage
EntriesPerLedger == 2  \* entries the broker writes to a ledger
BatchSize == 2         \* messages in the smaller batch of the topic
MaxEvents == 3         \* calls of add and addCumulative over a whole run
NumCallers == 2        \* concurrent callers of the tracker

Threads == 1..NumThreads
Sizes == 1..MaxReserve
Limits == {0, MaxLimit}
NoThread == 0

VARIABLES
    \* memoryLimitController
    limit,          \* m.limit, fixed at construction
    currentUsage,   \* m.currentUsage
    L,              \* m.chCond.L: the thread holding the mutex, or NoThread
    waiters,        \* threads suspended on m.chCond
    notified,       \* suspended threads a broadcast has woken
    \* the callers of the controller
    pc,             \* position of each thread in its call
    op,             \* the operation the thread is in: "try", "reserve", "release"
    size,           \* the size argument of the call
    current,        \* TryReserveMemory's local `current`
    newUsage,       \* ReleaseMemory's local `newUsage`
    slow,           \* ReserveMemory: past the fast path, inside the locked loop
    ctxDone,        \* ReserveMemory: the caller's context has been cancelled
    waitOk,         \* the value waitWithContext returned
    ret,            \* the call's result: "none", "true", "false"
    \* history
    added,          \* what the thread's current call has added to currentUsage
    lastReserved,   \* size of the latest successful reservation
    calls,          \* calls started so far
    owed            \* downward crossings of the limit minus calls of broadcast

VARIABLES
    \* the grouped tracker
    maxTime,        \* options.MaxTime: 0 (no time-based flush) or 1
    c,              \* the cachedAcks the loop owns, with the callbacks' calls
    timerOn,        \* the ticker `timeout` is running
    loopPc,         \* the loop: "select", "replyDup", "replyFlush", "exited"
    replyDup,       \* the value the loop is sending on duplicateResultCh
    flushType,      \* the ackFlushType the loop is serving
    \* the callers of the tracker
    cpc,            \* each caller: "idle", blocked at its "send", or at its
                    \* "receive" of the reply
    cop,            \* the method the caller is in, "none" when idle
    cid,            \* the id the caller passed to isDuplicate
    dupID,          \* the id the loop received on duplicateIDCh
    \* history
    accepted,       \* the ids add has handed to the loop, in order
    cumulated,      \* the latest id handed to addCumulative since the last clean
    cums,           \* calls of addCumulative so far
    cumAcked,       \* the latest id passed to ackCumulative since the last clean
    before          \* the cachedAcks as the flush request being served found it

mlcVars == <<limit, currentUsage, L, waiters, notified, pc, op, size, current,
             newUsage, slow, ctxDone, waitOk, ret, added, lastReserved, calls,
             owed>>

ackVars == <<maxTime, c, timerOn, loopPc, dupID, replyDup, flushType, cpc,
             cop, cid, accepted, cumulated, cums, cumAcked, before>>

vars == <<mlcVars, ackVars>>

(***************************************************************************)
(* memoryLimitController                                                   *)
(***************************************************************************)
IsMemoryLimited == limit > 0

\* Variants of the gate: closing one unit late, and closing at the limit.
OverLimitLate(cur) == IsMemoryLimited /\ cur > limit + 1

OverLimitAtLimit(cur) == IsMemoryLimited /\ cur >= limit

\* line 70: the gate of TryReserveMemory, on the value it loaded
OverLimit(cur) == IsMemoryLimited /\ cur > limit

\* line 74: atomic.CompareAndSwapInt64(&m.currentUsage, current, newUsage)
CompareAndSwap(old) == currentUsage = old

\* A variant of line 86 that also counts a release starting at the limit.
CrossedFromLimit(new, sz) == new + sz >= limit /\ new <= limit

\* line 86: the release took usage from above the limit to at-or-below it
Crossed(new, sz) == new + sz > limit /\ new <= limit

InitMLC ==
    /\ limit \in Limits
    /\ currentUsage = 0
    /\ L = NoThread
    /\ waiters = {}
    /\ notified = {}
    /\ pc = [t \in Threads |-> "idle"]
    /\ op = [t \in Threads |-> "none"]
    /\ size = [t \in Threads |-> 0]
    /\ current = [t \in Threads |-> 0]
    /\ newUsage = [t \in Threads |-> 0]
    /\ slow = [t \in Threads |-> FALSE]
    /\ ctxDone = [t \in Threads |-> FALSE]
    /\ waitOk = [t \in Threads |-> TRUE]
    /\ ret = [t \in Threads |-> "none"]
    /\ added = [t \in Threads |-> 0]
    /\ lastReserved = 0
    /\ calls = 0
    /\ owed = 0

\* A thread enters an operation with size s: its locals start afresh.  The
\* threads are interchangeable, so a thread makes its first call only after
\* the threads numbered before it have made theirs.
Enter(t, o, s) ==
    /\ pc[t] \in {"idle", "done"}
    /\ IF t = 1 THEN TRUE ELSE op[t - 1] # "none"
    /\ calls < MaxCalls
    /\ calls' = calls + 1
    /\ op' = [op EXCEPT ![t] = o]
    /\ size' = [size EXCEPT ![t] = s]
    /\ slow' = [slow EXCEPT ![t] = FALSE]
    /\ ctxDone' = [ctxDone EXCEPT ![t] = FALSE]
    /\ waitOk' = [waitOk EXCEPT ![t] = TRUE]

\* A variant of ReserveMemory that returns from the locked loop without the
\* deferred Unlock.
AfterTryNoUnlock(o, sl, ok) ==
    IF o = "try" \/ ok THEN "done"
    ELSE IF sl THEN "wait"
    ELSE "lock"

\* Where a thread in operation o goes when its TryReserveMemory returns ok:
\* back to the caller (o = "try"), or on in ReserveMemory (fast path line 51
\* when sl is false, the locked loop of line 55 when sl is true).
AfterTry(o, sl, ok) ==
    IF o = "try" \/ (ok /\ ~sl) THEN "done"
    ELSE IF ok THEN "unlock"
    ELSE IF sl THEN "wait"
    ELSE "lock"

\* The result the call has to return once TryReserveMemory has returned ok.
RetAfterTry(o, ok) ==
    IF ok THEN "true"
    ELSE IF o = "try" THEN "false"
    ELSE "none"

\* TryReserveMemory lines 66-72: load the counter, test the gate.
Load(t, o, sl) ==
    /\ current' = [current EXCEPT ![t] = currentUsage]
    /\ IF OverLimit(currentUsage)
       THEN /\ pc' = [pc EXCEPT ![t] = AfterTry(o, sl, FALSE)]
            /\ ret' = [ret EXCEPT ![t] = RetAfterTry(o, FALSE)]
       ELSE /\ pc' = [pc EXCEPT ![t] = "cas"]
            /\ ret' = [ret EXCEPT ![t] = "none"]

\* TryReserveMemory(size) is called; its first load.
CallTryReserveMemory(t) ==
    \E s \in Sizes :
        /\ Enter(t, "try", s)
        /\ Load(t, "try", FALSE)
        /\ added' = [added EXCEPT ![t] = 0]
        /\ newUsage' = [newUsage EXCEPT ![t] = 0]
        /\ UNCHANGED <<limit, currentUsage, L, waiters, notified, lastReserved>>
        /\ UNCHANGED owed
        /\ UNCHANGED ackVars

\* ReserveMemory(ctx, size) is called; line 51, the first load of its fast path.
CallReserveMemory(t) ==
    \E s \in Sizes :
        /\ Enter(t, "reserve", s)
        /\ Load(t, "reserve", FALSE)
        /\ added' = [added EXCEPT ![t] = 0]
        /\ newUsage' = [newUsage EXCEPT ![t] = 0]
        /\ UNCHANGED <<limit, currentUsage, L, waiters, notified, lastReserved>>
        /\ UNCHANGED owed
        /\ UNCHANGED ackVars

\* ReleaseMemory(size) is called; line 85,
\* newUsage := atomic.AddInt64(&m.currentUsage, -size)
CallReleaseMemory(t) ==
    \E s \in Sizes :
        /\ Enter(t, "release", s)
        /\ currentUsage' = currentUsage - s
        /\ newUsage' = [newUsage EXCEPT ![t] = currentUsage - s]
        /\ added' = [added EXCEPT ![t] = currentUsage' - currentUsage]
        /\ current' = [current EXCEPT ![t] = 0]
        /\ ret' = [ret EXCEPT ![t] = "none"]
        /\ pc' = [pc EXCEPT ![t] = "crossed"]
        /\ owed' = IF currentUsage > limit /\ currentUsage' <= limit
                   THEN owed + 1 ELSE owed
        /\ UNCHANGED <<limit, L, waiters, notified, lastReserved>>
        /\ UNCHANGED ackVars

\* TryReserveMemory lines 66-72 again: after a failed compare-and-swap, and
\* in the locked loop of ReserveMemory.
TryLoad(t) ==
    /\ pc[t] = "load"
    /\ Load(t, op[t], slow[t])
    /\ UNCHANGED <<limit, currentUsage, L, waiters, notified, op, size,
                   newUsage, slow, ctxDone, waitOk, added, lastReserved, calls>>
    /\ UNCHANGED owed
    /\ UNCHANGED ackVars

\* TryReserveMemory lines 74-76: the compare-and-swap, retried on failure.
TryCAS(t) ==
    /\ pc[t] = "cas"
    /\ IF CompareAndSwap(current[t])
       THEN /\ currentUsage' = current[t] + size[t]
            /\ added' = [added EXCEPT ![t] = @ + (currentUsage' - currentUsage)]
            /\ lastReserved' = size[t]
            /\ pc' = [pc EXCEPT ![t] = AfterTry(op[t], slow[t], TRUE)]
            /\ ret' = [ret EXCEPT ![t] = RetAfterTry(op[t], TRUE)]
       ELSE /\ pc' = [pc EXCEPT ![t] = "load"]
            /\ UNCHANGED <<currentUsage, added, lastReserved, ret>>
    /\ UNCHANGED <<limit, L, waiters, notified, op, size, current, newUsage,
                   slow, ctxDone, waitOk, calls>>
    /\ UNCHANGED owed
    /\ UNCHANGED ackVars

\* ReserveMemory line 52: m.chCond.L.Lock()
Lock(t) ==
    /\ pc[t] = "lock"
    /\ L = NoThread
    /\ L' = t
    /\ slow' = [slow EXCEPT ![t] = TRUE]
    /\ pc' = [pc EXCEPT ![t] = "load"]
    /\ UNCHANGED <<limit, currentUsage, waiters, notified, op, size, current,
                   newUsage, ctxDone, waitOk, ret, added, lastReserved, calls>>
    /\ UNCHANGED owed
    /\ UNCHANGED ackVars

\* chCond.waitWithContext, entry: release the mutex and suspend.
WaitSuspend(t) ==
    /\ pc[t] = "wait"
    /\ L' = NoThread
    /\ waiters' = waiters \cup {t}
    /\ pc' = [pc EXCEPT ![t] = "suspended"]
    /\ UNCHANGED <<limit, currentUsage, notified, op, size, current, newUsage,
                   slow, ctxDone, waitOk, ret, added, lastReserved, calls>>
    /\ UNCHANGED owed
    /\ UNCHANGED ackVars

\* chCond.waitWithContext, wake: by a broadcast (true) or by the cancelled
\* context (false); when both are ready either is taken.
WaitWake(t) ==
    /\ pc[t] = "suspended"
    /\ \E ok \in BOOLEAN :
        /\ IF ok THEN t \in notified ELSE ctxDone[t]
        /\ waitOk' = [waitOk EXCEPT ![t] = ok]
    /\ waiters' = waiters \ {t}
    /\ notified' = notified \ {t}
    /\ pc' = [pc EXCEPT ![t] = "relock"]
    /\ UNCHANGED <<limit, currentUsage, L, op, size, current, newUsage, slow,
                   ctxDone, ret, added, lastReserved, calls>>
    /\ UNCHANGED owed
    /\ UNCHANGED ackVars

\* A variant of the loop that tries again whatever waitWithContext returned.
AfterWaitRetry(ok) == "load"

\* ReserveMemory lines 55-58: loop while waitWithContext returns true,
\* return false as soon as it returns false.
AfterWait(ok) == IF ok THEN "load" ELSE "unlock"

\* chCond.waitWithContext, exit: take the mutex again; then ReserveMemory
\* loops (line 55) or gives up (line 57).
WaitRelock(t) ==
    /\ pc[t] = "relock"
    /\ L = NoThread
    /\ L' = t
    /\ pc' = [pc EXCEPT ![t] = AfterWait(waitOk[t])]
    /\ ret' = [ret EXCEPT ![t] = IF waitOk[t] THEN "none" ELSE "false"]
    /\ UNCHANGED <<limit, currentUsage, waiters, notified, op, size, current,
                   newUsage, slow, ctxDone, waitOk, added, lastReserved, calls>>
    /\ UNCHANGED owed
    /\ UNCHANGED ackVars

\* ReserveMemory line 53: the deferred m.chCond.L.Unlock(), then return.
Unlock(t) ==
    /\ pc[t] = "unlock"
    /\ L' = NoThread
    /\ pc' = [pc EXCEPT ![t] = "done"]
    /\ UNCHANGED <<limit, currentUsage, waiters, notified, op, size, current,
                   newUsage, slow, ctxDone, waitOk, ret, added, lastReserved, calls>>
    /\ UNCHANGED owed
    /\ UNCHANGED ackVars

\* The caller of ReserveMemory cancels the context it passed.  Only
\* waitWithContext reads the context, so a cancellation earlier in the call
\* acts as one made when the call reaches waitWithContext.
Cancel(t) ==
    /\ op[t] = "reserve"
    /\ pc[t] \in {"wait", "suspended"}
    /\ ~ctxDone[t]
    /\ ctxDone' = [ctxDone EXCEPT ![t] = TRUE]
    /\ UNCHANGED <<limit, currentUsage, L, waiters, notified, pc, op, size,
                   current, newUsage, slow, waitOk, ret, added, lastReserved,
                   calls>>
    /\ UNCHANGED owed
    /\ UNCHANGED ackVars

\* chCond.broadcast: wake every thread suspended now.
broadcast ==
    /\ notified' = notified \cup waiters
    /\ waiters' = {}

\* ReleaseMemory lines 86-88: broadcast if this release crossed the limit.
ReleaseBroadcast(t) ==
    /\ pc[t] = "crossed"
    /\ IF Crossed(newUsage[t], size[t])
       THEN /\ broadcast
            /\ owed' = owed - 1
       ELSE UNCHANGED <<waiters, notified, owed>>
    /\ pc' = [pc EXCEPT ![t] = "done"]
    /\ UNCHANGED <<limit, currentUsage, L, op, size, current, newUsage, slow,
                   ctxDone, waitOk, ret, added, lastReserved, calls>>
    /\ UNCHANGED ackVars

NextMLC ==
    \E t \in Threads :
        \/ CallTryReserveMemory(t)
        \/ CallReserveMemory(t)
        \/ CallReleaseMemory(t)
        \/ TryLoad(t)
        \/ TryCAS(t)
        \/ Lock(t)
        \/ WaitSuspend(t)
        \/ WaitWake(t)
        \/ WaitRelock(t)
        \/ Unlock(t)
        \/ Cancel(t)
        \/ ReleaseBroadcast(t)

(***************************************************************************)
(* MessageID                                                               *)
(***************************************************************************)
Callers == 1..NumCallers

\* The single thread of a consumer that uses its tracker from one goroutine.
OneCaller == {p \in Callers : p = 1}

\* The topic: entry k lies in ledger k \div EntriesPerLedger; entry 1 holds a
\* batch of BatchSize messages, entry 3 a batch of BatchSize + 1, every other
\* entry a single message.
BatchSizeOf(k) ==
    IF k = 1 THEN BatchSize ELSE IF k = 3 THEN BatchSize + 1 ELSE 0

MessageID(k, i) ==
    [ledgerID |-> k \div EntriesPerLedger, entryID |-> k % EntriesPerLedger,
     batchIdx |-> i, batchSize |-> BatchSizeOf(k)]

MessageIDs ==
    UNION {IF BatchSizeOf(k) = 0
           THEN {MessageID(k, -1)}
           ELSE {MessageID(k, i) : i \in 0..(BatchSizeOf(k) - 1)} :
           k \in 0..MaxMessage}

\* The ids the concurrent callers pass: a single message, and the first
\* message of the batch that follows it.
FewMessageIDs == {MessageID(0, -1), MessageID(1, 0)}

EarliestMessageID ==
    [ledgerID |-> -1, entryID |-> -1, batchIdx |-> -1, batchSize |-> 0]

\* The nil MessageID of a slot of singleAcks never written.
NilMessageID ==
    [ledgerID |-> -2, entryID |-> -2, batchIdx |-> -2, batchSize |-> 0]

\* Position first (ledger, entry), batch index second.
messageIDCompare(lhs, rhs) ==
    IF lhs.ledgerID < rhs.ledgerID THEN -1
    ELSE IF lhs.ledgerID > rhs.ledgerID THEN 1
    ELSE IF lhs.entryID < rhs.entryID THEN -1
    ELSE IF lhs.entryID > rhs.entryID THEN 1
    ELSE IF lhs.batchIdx < rhs.batchIdx THEN -1
    ELSE IF lhs.batchIdx > rhs.batchIdx THEN 1
    ELSE 0

\* A hash of the position; it tells apart the positions of the topic.
messageIDHash(id) == id.ledgerID + 31 * id.entryID

\* A MessageID with batch size <= 1, or unset, is not batched.
messageIDIsBatch(id) == id.batchSize > 1

(***************************************************************************)
(* bitset.BitSet, as the set of the indices whose bit is 1, and the nil     *)
(* *bitset.BitSet                                                          *)
(***************************************************************************)
NilAckSet == [isNil |-> TRUE, bits |-> {}]

\* bitset.New(n) followed by Set(i) for every i < n
AllSet(n) == [isNil |-> FALSE, bits |-> 0..(n - 1)]

Clear(ackSet, i) == [ackSet EXCEPT !.bits = @ \ {i}]

Test(ackSet, i) == i \in ackSet.bits

None(ackSet) == ackSet.bits = {}

\* map assignment and delete
Put(m, key, v) == [k \in DOMAIN m \cup {key} |-> IF k = key THEN v ELSE m[k]]

Delete(m, key) == [k \in DOMAIN m \ {key} |-> m[k]]

(***************************************************************************)
(* cachedAcks                                                              *)
(***************************************************************************)
Individual(id) == [kind |-> "individual", id |-> id]

Cumulative(id) == [kind |-> "cumulative", id |-> id]

\* The cachedAcks of newAckGroupingTracker; acked lists the calls made to
\* ackIndividual and ackCumulative.
NewCachedAcks ==
    [singleAcks |-> [i \in 0..(MaxSize - 1) |-> NilMessageID],
     index |-> 0,
     pendingAcks |-> <<>>,
     lastCumulativeAck |-> EarliestMessageID,
     cumulativeAckRequired |-> FALSE,
     acked |-> <<>>]

\* A variant that leaves the bit of the added index set.
addWithoutClear(t, id) ==
    LET key == messageIDHash(id)
        ackSet == IF key \in DOMAIN t.pendingAcks THEN t.pendingAcks[key]
                  ELSE IF messageIDIsBatch(id) THEN AllSet(id.batchSize)
                  ELSE NilAckSet
    IN  [t EXCEPT !.singleAcks = [@ EXCEPT ![t.index] = id],
                  !.index = @ + 1,
                  !.pendingAcks = Put(@, key, ackSet)]

\* addAndCheckIfFull, the state it leaves.
addAndCheckIfFull(t, id) ==
    LET key == messageIDHash(id)
        ackSet == IF key \in DOMAIN t.pendingAcks THEN t.pendingAcks[key]
                  ELSE IF messageIDIsBatch(id) THEN AllSet(id.batchSize)
                  ELSE NilAckSet
    IN  [t EXCEPT !.singleAcks = [@ EXCEPT ![t.index] = id],
                  !.index = @ + 1,
                  !.pendingAcks =
                      Put(@, key, IF ackSet.isNil THEN ackSet
                                  ELSE Clear(ackSet, id.batchIdx))]

\* A variant that finds the buffer full one id late.
IsFullLate(t) == t.index = MaxSize + 1

\* addAndCheckIfFull, the value it returns.
IsFull(t) == t.index = MaxSize

\* A variant that moves the watermark backward only.
tryUpdateBackward(t, id) ==
    IF messageIDCompare(t.lastCumulativeAck, id) > 0
    THEN [t EXCEPT !.lastCumulativeAck = id, !.cumulativeAckRequired = TRUE]
    ELSE t

tryUpdateLastCumulativeAck(t, id) ==
    IF messageIDCompare(t.lastCumulativeAck, id) < 0
    THEN [t EXCEPT !.lastCumulativeAck = id, !.cumulativeAckRequired = TRUE]
    ELSE t

\* A variant that reads the bit without negating it.
isDuplicateBitSet(t, id) ==
    IF messageIDCompare(t.lastCumulativeAck, id) >= 0 THEN TRUE
    ELSE IF messageIDHash(id) \notin DOMAIN t.pendingAcks THEN FALSE
    ELSE IF t.pendingAcks[messageIDHash(id)].isNil \/ ~messageIDIsBatch(id)
         THEN TRUE
    ELSE Test(t.pendingAcks[messageIDHash(id)], id.batchIdx)

isDuplicate(t, id) ==
    IF messageIDCompare(t.lastCumulativeAck, id) >= 0 THEN TRUE
    ELSE IF messageIDHash(id) \notin DOMAIN t.pendingAcks THEN FALSE
    ELSE IF t.pendingAcks[messageIDHash(id)].isNil \/ ~messageIDIsBatch(id)
         THEN TRUE
    ELSE ~Test(t.pendingAcks[messageIDHash(id)], id.batchIdx)

\* A variant without line 338: the entry of a batch goes only once every
\* index of the batch has been acknowledged.
EvictWhenAcked(pending, id) ==
    LET key == messageIDHash(id)
    IN  IF key \notin DOMAIN pending THEN pending
        ELSE LET ackSet == pending[key]
             IN  IF ackSet.isNil THEN Delete(pending, key)
                 ELSE IF None(Clear(ackSet, id.batchIdx))
                      THEN Delete(pending, key)
                 ELSE Put(pending, key, Clear(ackSet, id.batchIdx))

\* flushIndividualAcks lines 325-338: one turn of the loop over the flushed ids.
Evict(pending, id) ==
    LET key == messageIDHash(id)
    IN  IF key \notin DOMAIN pending THEN pending
        ELSE LET ackSet == pending[key]
                 first == IF ackSet.isNil THEN Delete(pending, key)
                          ELSE IF None(Clear(ackSet, id.batchIdx))
                               THEN Delete(pending, key)
                          ELSE Put(pending, key, Clear(ackSet, id.batchIdx))
             IN  Delete(first, key)

RECURSIVE EvictAll(_, _, _, _)
EvictAll(pending, acks, i, n) ==
    IF i >= n THEN pending
    ELSE EvictAll(Evict(pending, acks[i]), acks, i + 1, n)

\* A variant of ackList that goes through the ids from the last to the first.
ackListBackward(acked, acks, n) ==
    acked \o [i \in 1..n |-> Individual(acks[n - i])]

\* ackList: ackIndividual for each id, in order.
ackList(acked, acks, n) ==
    acked \o [i \in 1..n |-> Individual(acks[i - 1])]

\* A variant that sends the acks and leaves the pending-ack index alone.
flushKeepPending(t) ==
    IF t.index > 0
    THEN [t EXCEPT !.acked = ackList(@, t.singleAcks, t.index), !.index = 0]
    ELSE t

\* A variant without line 340: the cursor is left where it was.
flushKeepIndex(t) ==
    IF t.index > 0
    THEN [t EXCEPT !.acked = ackList(@, t.singleAcks, t.index),
                   !.pendingAcks = EvictAll(@, t.singleAcks, 0, t.index)]
    ELSE t

flushIndividualAcks(t) ==
    IF t.index > 0
    THEN [t EXCEPT !.acked = ackList(@, t.singleAcks, t.index),
                   !.pendingAcks = EvictAll(@, t.singleAcks, 0, t.index),
                   !.index = 0]
    ELSE t

\* A variant that sends the watermark and leaves the flag set.
flushCumulativeKeepFlag(t) ==
    IF t.cumulativeAckRequired
    THEN [t EXCEPT !.acked = Append(@, Cumulative(t.lastCumulativeAck))]
    ELSE t

flushCumulativeAck(t) ==
    IF t.cumulativeAckRequired
    THEN [t EXCEPT !.acked = Append(@, Cumulative(t.lastCumulativeAck)),
                   !.cumulativeAckRequired = FALSE]
    ELSE t

\* A variant that sends the cumulative ack first.
flushCumulativeFirst(t) == flushIndividualAcks(flushCumulativeAck(t))

flush(t) == flushCumulativeAck(flushIndividualAcks(t))

\* A variant that keeps the watermark.
cleanKeepWatermark(t) ==
    [t EXCEPT !.singleAcks = [i \in 0..(MaxSize - 1) |-> NilMessageID],
              !.index = 0,
              !.pendingAcks = <<>>,
              !.cumulativeAckRequired = FALSE]

clean(t) ==
    [t EXCEPT !.singleAcks = [i \in 0..(MaxSize - 1) |-> NilMessageID],
              !.index = 0,
              !.pendingAcks = <<>>,
              !.lastCumulativeAck = EarliestMessageID,
              !.cumulativeAckRequired = FALSE]

(***************************************************************************)
(* The tracker loop and its callers                                        *)
(***************************************************************************)
\* A variant of line 207 that takes MaxTime = 0 for a time to wait.
NoTimedFlushBelowZero == maxTime < 0

\* line 207: options.MaxTime <= 0, time-based flushing is disabled
NoTimedFlush == maxTime <= 0

\* The methods of timedAckGroupingTracker, lines 374-400.
Methods == {"add", "addCumulative", "isDuplicate", "flush", "flushAndClean",
            "close"}

\* The ackFlushType a method sends on flushCh: lines 388, 393, 398.
FlushTypeOf(o) ==
    IF o = "flush" THEN "flushOnly"
    ELSE IF o = "flushAndClean" THEN "flushAndClean"
    ELSE "flushAndClose"

\* The latest id passed to ackCumulative once the handling of an event has
\* taken the cachedAcks from t0 to t1: flush sends the cumulative ack last.
CumulativeAcked(t0, t1) ==
    IF /\ Len(t1.acked) > Len(t0.acked)
       /\ t1.acked[Len(t1.acked)].kind = "cumulative"
    THEN t1.acked[Len(t1.acked)].id
    ELSE cumAcked

\* Calls of add and addCumulative made so far, those still blocked included.
Started ==
    Len(accepted) + cums
    + Cardinality({p \in Callers : cpc[p] = "send"
                                   /\ cop[p] \in {"add", "addCumulative"}})

InitAck ==
    /\ maxTime \in {0, 1}
    /\ c = NewCachedAcks
    /\ timerOn = (maxTime > 0)
    /\ loopPc = "select"
    /\ replyDup = FALSE
    /\ flushType = "flushOnly"
    /\ cpc = [p \in Callers |-> "idle"]
    /\ cop = [p \in Callers |-> "none"]
    /\ cid = [p \in Callers |-> EarliestMessageID]
    /\ dupID = EarliestMessageID
    /\ accepted = <<>>
    /\ cumulated = EarliestMessageID
    /\ cums = 0
    /\ cumAcked = EarliestMessageID
    /\ before = NewCachedAcks

\* Caller p enters method o and reaches its send on the method's unbuffered
\* channel (lines 375, 379, 383, 388, 393, 398), where it blocks until the
\* loop receives.  The id it holds is seen by nobody before that, and is
\* drawn when the loop receives it.
Call(p, o) ==
    /\ cpc[p] = "idle"
    /\ o \in {"add", "addCumulative"} => Started < MaxEvents
    /\ cpc' = [cpc EXCEPT ![p] = "send"]
    /\ cop' = [cop EXCEPT ![p] = o]
    /\ UNCHANGED <<maxTime, c, timerOn, loopPc, dupID, replyDup, flushType,
                   cid, accepted, cumulated, cums, before, cumAcked>>
    /\ UNCHANGED mlcVars

\* A variant in which the loop receives the next request before its reply to
\* the last one has been taken, as it would with buffered reply channels.
SendsBeforeReplyTaken(p, o) ==
    /\ cpc[p] = "send"
    /\ cop[p] = o
    /\ loopPc \in {"select", "replyDup", "replyFlush"}

\* A variant in which the loop goes on receiving after it has served a close.
SendsAfterClose(p, o) ==
    /\ cpc[p] = "send"
    /\ cop[p] = o
    /\ loopPc \in {"select", "exited"}

\* Caller p, blocked at the send of method o, and the loop, at its select,
\* meet on the channel.
Sends(p, o) ==
    /\ cpc[p] = "send"
    /\ cop[p] = o
    /\ loopPc = "select"

\* Caller p returns from its call.
Return(p) ==
    /\ cpc' = [cpc EXCEPT ![p] = "idle"]
    /\ cop' = [cop EXCEPT ![p] = "none"]
    /\ cid' = [cid EXCEPT ![p] = EarliestMessageID]

\* add(id), received by the loop: lines 198-204, 375.
add(p, id) ==
    /\ Sends(p, "add")
    /\ Return(p)
    /\ accepted' = Append(accepted, id)
    /\ LET t == addAndCheckIfFull(c, id)
       IN  IF IsFull(t)
           THEN /\ c' = flushIndividualAcks(t)
                /\ timerOn' = IF maxTime > 0 THEN TRUE ELSE timerOn
           ELSE /\ c' = t
                /\ UNCHANGED timerOn
    /\ UNCHANGED <<maxTime, loopPc, dupID, replyDup, flushType,
                   cumulated, cums, before, cumAcked>>
    /\ UNCHANGED mlcVars

\* addCumulative(id), received by the loop: lines 205-209, 379.
addCumulative(p, id) ==
    /\ Sends(p, "addCumulative")
    /\ Return(p)
    /\ cums' = cums + 1
    /\ cumulated' = id
    /\ LET t == tryUpdateLastCumulativeAck(c, id)
       IN  c' = IF NoTimedFlush THEN flushCumulativeAck(t) ELSE t
    /\ cumAcked' = CumulativeAcked(c, c')
    /\ UNCHANGED <<maxTime, timerOn, loopPc, dupID, replyDup, flushType,
                   accepted, before>>
    /\ UNCHANGED mlcVars

\* isDuplicate(id), the request received by the loop: lines 210-211, 383.
isDuplicateSend(p, id) ==
    /\ Sends(p, "isDuplicate")
    /\ cid' = [cid EXCEPT ![p] = id]
    /\ dupID' = id
    /\ replyDup' = isDuplicate(c, id)
    /\ cpc' = [cpc EXCEPT ![p] = "receive"]
    /\ loopPc' = "replyDup"
    /\ UNCHANGED <<maxTime, c, timerOn, flushType, cop, accepted, cumulated,
                   cums, before, cumAcked>>
    /\ UNCHANGED mlcVars

\* isDuplicate(id), the result received by the caller: lines 211, 384.
isDuplicateReceive(p) ==
    /\ cpc[p] = "receive"
    /\ cop[p] = "isDuplicate"
    /\ loopPc = "replyDup"
    /\ Return(p)
    /\ loopPc' = "select"
    /\ dupID' = EarliestMessageID
    /\ replyDup' = FALSE
    /\ UNCHANGED <<maxTime, c, timerOn, flushType, accepted, cumulated,
                   cums, before, cumAcked>>
    /\ UNCHANGED mlcVars

\* The ticker fires and the loop receives from timeout.C: lines 212-213.
TimerFire ==
    /\ loopPc = "select"
    /\ timerOn
    /\ c' = flush(c)
    /\ cumAcked' = CumulativeAcked(c, c')
    /\ UNCHANGED <<maxTime, timerOn, loopPc, dupID, replyDup, flushType, cpc,
                   cop, cid, accepted, cumulated, cums, before>>
    /\ UNCHANGED mlcVars

\* flush(), flushAndClean() or close(), the request received by the loop:
\* lines 214-220.
FlushSend(p, o) ==
    /\ Sends(p, o)
    /\ timerOn' = FALSE
    /\ c' = IF o = "flushAndClean" THEN clean(flush(c)) ELSE flush(c)
    /\ cumulated' = IF o = "flushAndClean" THEN EarliestMessageID
                    ELSE cumulated
    /\ cumAcked' = IF o = "flushAndClean" THEN EarliestMessageID
                   ELSE CumulativeAcked(c, c')
    /\ before' = c
    /\ flushType' = FlushTypeOf(o)
    /\ cpc' = [cpc EXCEPT ![p] = "receive"]
    /\ loopPc' = "replyFlush"
    /\ UNCHANGED <<maxTime, dupID, replyDup, cop, cid, accepted, cums>>
    /\ UNCHANGED mlcVars

flushOnly(p) == FlushSend(p, "flush")

flushAndClean(p) == FlushSend(p, "flushAndClean")

flushAndClose(p) == FlushSend(p, "close")

\* The caller receives from waitFlushCh; after a close the loop returns:
\* lines 220-223, 389, 394, 399.
FlushReceive(p) ==
    /\ cpc[p] = "receive"
    /\ cop[p] \in {"flush", "flushAndClean", "close"}
    /\ loopPc = "replyFlush"
    /\ Return(p)
    /\ loopPc' = IF flushType = "flushAndClose" THEN "exited" ELSE "select"
    /\ flushType' = "flushOnly"
    /\ before' = NewCachedAcks
    /\ UNCHANGED <<maxTime, c, timerOn, dupID, replyDup, accepted,
                   cumulated, cums, cumAcked>>
    /\ UNCHANGED mlcVars

\* The tracker used by one thread, with every id of the topic.
NextAck ==
    \/ \E p \in OneCaller :
        \/ \E o \in Methods : Call(p, o)
        \/ \E id \in MessageIDs : add(p, id)
        \/ \E id \in MessageIDs : addCumulative(p, id)
        \/ \E id \in MessageIDs : isDuplicateSend(p, id)
        \/ isDuplicateReceive(p)
        \/ flushOnly(p)
        \/ flushAndClean(p)
        \/ flushAndClose(p)
        \/ FlushReceive(p)
    \/ TimerFire

\* The tracker used by several threads at once, with a few ids.
NextCallers ==
    \/ \E p \in Callers :
        \/ \E o \in Methods : Call(p, o)
        \/ \E id \in FewMessageIDs : add(p, id)
        \/ \E id \in FewMessageIDs : addCumulative(p, id)
        \/ \E id \in FewMessageIDs : isDuplicateSend(p, id)
        \/ isDuplicateReceive(p)
        \/ flushOnly(p)
        \/ flushAndClean(p)
        \/ flushAndClose(p)
        \/ FlushReceive(p)
    \/ TimerFire

\* The controller alone, beside a tracker just constructed.
InitController == InitMLC /\ InitAck /\ maxTime = 0

SpecMLC == InitController /\ [][NextMLC]_vars

\* The tracker alone, beside a controller just constructed.
InitTracker == InitAck /\ InitMLC /\ limit = 0

SpecAck == InitTracker /\ [][NextAck]_vars

SpecCallers == InitTracker /\ [][NextCallers]_vars

\* What the scheduling of the loop and of its callers guarantees: a ticker
\* that is running fires again and again and select takes a ready case at
\* random, so the timer case is taken if it is ready infinitely often; a
\* caller blocked at the receive of its reply takes the reply.  No caller has
\* to make a call.
FairTracker ==
    /\ SF_vars(TimerFire)
    /\ \A p \in Callers : WF_vars(isDuplicateReceive(p))
    /\ \A p \in Callers : WF_vars(FlushReceive(p))

SpecTimed == InitTracker /\ [][NextCallers]_vars /\ FairTracker

(***************************************************************************)
(* Properties of the memory limit controller                               *)
(***************************************************************************)

\* C1: with a positive limit, currentUsage never exceeds the limit by more
\* than the size of one reservation, the latest one that succeeded.
BoundedOvershoot ==
    IsMemoryLimited => currentUsage <= limit + lastReserved

\* A reservation has pushed usage over the limit by its whole size, with a
\* release running beside it.
BoundedOvershootWitness ==
    /\ IsMemoryLimited
    /\ lastReserved > 0
    /\ currentUsage = limit + lastReserved
    /\ \E t \in Threads : op[t] = "release"

\* C2: no wakeup is missed.  A thread suspended in ReserveMemory while
\* currentUsage is at or below the limit has been woken by a broadcast, or a
\* release that crossed the limit is about to broadcast.
NoMissedWakeup ==
    \A t \in Threads :
        (pc[t] = "suspended" /\ t \notin notified /\ currentUsage <= limit)
            => \E u \in Threads :
                   pc[u] = "crossed" /\ newUsage[u] + size[u] > limit
                                     /\ newUsage[u] <= limit

\* C3: a ReserveMemory whose wait was ended by the cancelled context returns
\* false; a ReserveMemory that returned false was cancelled and has added
\* nothing to currentUsage, one that returned true has added exactly size.
CancelledReserveAddsNothing ==
    \A t \in Threads :
        (op[t] = "reserve" /\ pc[t] = "done") =>
            /\ ret[t] \in {"true", "false"}
            /\ ~waitOk[t] => ret[t] = "false"
            /\ ret[t] = "false" => (~waitOk[t] /\ ctxDone[t] /\ added[t] = 0)
            /\ ret[t] = "true" => added[t] = size[t]

\* A ReserveMemory was suspended with usage above the limit, its context
\* was cancelled, and it has returned false leaving usage as it was.
CancelledReserveWitness ==
    \E t \in Threads :
        /\ op[t] = "reserve" /\ pc[t] = "done" /\ ret[t] = "false"
        /\ slow[t] /\ ctxDone[t] /\ ~waitOk[t]
        /\ added[t] = 0 /\ currentUsage > limit

\* C4: TryReserveMemory returns false, adding nothing, exactly when the limit
\* is positive and the usage it read is above the limit; otherwise it returns
\* true and has added exactly size.
TryReserveOutcome ==
    \A t \in Threads :
        (op[t] = "try" /\ pc[t] = "done") =>
            /\ ret[t] = "false" <=> (limit > 0 /\ current[t] > limit)
            /\ ret[t] = "true" <=> ~(limit > 0 /\ current[t] > limit)
            /\ ret[t] = "false" => added[t] = 0
            /\ ret[t] = "true" => added[t] = size[t]

\* A TryReserveMemory that read usage equal to the limit succeeded and took
\* usage over the limit; the next one was refused.
TryReserveOutcomeWitness ==
    \E t, u \in Threads :
        /\ limit > 0
        /\ op[t] = "try" /\ pc[t] = "done" /\ ret[t] = "true"
        /\ current[t] = limit
        /\ op[u] = "try" /\ pc[u] = "done" /\ ret[u] = "false"
        /\ added[u] = 0

\* The releases past their subtraction and not yet past line 86.
Releasing == {t \in Threads : pc[t] = "crossed"}

\* C13: ReleaseMemory broadcasts if and only if its own subtraction took
\* usage from above the limit to at-or-below it.  Every downward crossing is
\* broadcast once, by the release that made it: the crossings not yet
\* broadcast are never negative (no release broadcasts without a crossing)
\* and never more than the releases still between their subtraction and
\* their test (no crossing goes without its broadcast), and a release that
\* is about to broadcast is one whose own subtraction crossed.
BroadcastOncePerCrossing ==
    /\ owed >= 0
    /\ owed <= Cardinality(Releasing)
    /\ owed = Cardinality({t \in Releasing :
                              /\ newUsage[t] + size[t] > limit
                              /\ newUsage[t] <= limit})

\* Two releases in flight at once, of which exactly one crossed the limit.
BroadcastOncePerCrossingWitness ==
    /\ Cardinality(Releasing) = 2
    /\ owed = 1
    /\ limit > 0

\* C14, as claimed: no thread is in the load/compare-and-swap loop of
\* TryReserveMemory while it holds the mutex of the condition variable.
MutexFreeCASLoop ==
    \A t \in Threads : pc[t] \in {"load", "cas"} => L # t

\* C14, amended: the mutex is held only by ReserveMemory's blocking path
\* (never by TryReserveMemory, ReleaseMemory or the fast path); that path
\* holds it from line 52 to its return, the load/compare-and-swap loop of
\* line 55 included, except while it is suspended in waitWithContext.
MutexOnlyOnBlockingPath ==
    \A t \in Threads :
        /\ L = t => /\ op[t] = "reserve"
                    /\ slow[t]
                    /\ pc[t] \in {"load", "cas", "wait", "unlock"}
        /\ (slow[t] /\ pc[t] \in {"load", "cas", "wait", "unlock"}) => L = t
        /\ (op[t] \in {"try", "release"} \/ ~slow[t]) => L # t

\* The blocking path at its compare-and-swap, the mutex held.
MutexHeldInCASWitness ==
    \E t \in Threads :
        /\ op[t] = "reserve" /\ slow[t]
        /\ pc[t] = "cas"
        /\ L = t

(***************************************************************************)
(* Properties of the grouped tracker                                       *)
(***************************************************************************)
Buffered(t) == {t.singleAcks[i] : i \in 0..(t.index - 1)}

SamePosition(a, b) == a.ledgerID = b.ledgerID /\ a.entryID = b.entryID

\* The batch indices of id's position among the ids waiting in the buffer.
BufferedIdx(t, id) == {b.batchIdx : b \in {x \in Buffered(t) : SamePosition(x, id)}}

\* The ids passed to ackIndividual so far, in order.
RECURSIVE IndividualAcks(_)
IndividualAcks(acked) ==
    IF acked = <<>> THEN <<>>
    ELSE IF Head(acked).kind = "individual"
         THEN <<Head(acked).id>> \o IndividualAcks(Tail(acked))
    ELSE IndividualAcks(Tail(acked))

\* C5: the add that fills the buffer with MaxSize distinct non-batched ids
\* passes each of them once to ackIndividual, in order, leaves the cursor at 0
\* and leaves no pending-ack entry for any of them.
FullBufferFlushed ==
    [][(/\ Len(accepted') = Len(accepted) + 1
        /\ c.index = MaxSize - 1
        /\ Cardinality(Buffered(c) \cup {accepted'[Len(accepted')]}) = MaxSize
        /\ \A id \in Buffered(c) \cup {accepted'[Len(accepted')]} :
               ~messageIDIsBatch(id))
       => (/\ c'.index = 0
           /\ c'.acked = c.acked
                  \o [i \in 1..(MaxSize - 1) |-> Individual(c.singleAcks[i - 1])]
                  \o <<Individual(accepted'[Len(accepted')])>>
           /\ \A id \in Buffered(c) \cup {accepted'[Len(accepted')]} :
                  messageIDHash(id) \notin DOMAIN c'.pendingAcks)]_vars

\* MaxSize adds of distinct non-batched ids were all that happened, with no
\* timer: every id has been acknowledged and nothing is left.
FullBufferFlushedWitness ==
    /\ maxTime = 0
    /\ loopPc = "select"
    /\ Len(accepted) = MaxSize
    /\ Cardinality({accepted[i] : i \in 1..MaxSize}) = MaxSize
    /\ \A i \in 1..MaxSize : ~messageIDIsBatch(accepted[i])
    /\ c.acked = [i \in 1..MaxSize |-> Individual(accepted[i])]
    /\ c.index = 0
    /\ c.pendingAcks = <<>>

\* C6: cumulative acks dominate.  Every id at or below the watermark, hence at
\* or below the latest id passed to addCumulative, is a duplicate, flushed or
\* not and whatever the pending-ack index holds; the loop answers so.
CumulativeDominates ==
    /\ \A id \in MessageIDs :
           (\/ messageIDCompare(id, c.lastCumulativeAck) <= 0
            \/ messageIDCompare(id, cumulated) <= 0) => isDuplicate(c, id)
    /\ (/\ loopPc = "replyDup"
        /\ \/ messageIDCompare(dupID, c.lastCumulativeAck) <= 0
           \/ messageIDCompare(dupID, cumulated) <= 0) => replyDup

\* The loop answers true for an id the unflushed watermark covers although the
\* pending-ack index holds the id's bit still set.
CumulativeDominatesWitness ==
    /\ loopPc = "replyDup"
    /\ replyDup
    /\ c.cumulativeAckRequired
    /\ messageIDCompare(dupID, c.lastCumulativeAck) <= 0
    /\ messageIDHash(dupID) \in DOMAIN c.pendingAcks
    /\ dupID.batchIdx \in c.pendingAcks[messageIDHash(dupID)].bits

\* C7: for a batched id above the watermark the loop answers duplicate iff the
\* id's batch index is among those of its position added and not yet flushed.
PerIndexDuplicate ==
    (/\ loopPc = "replyDup"
     /\ messageIDIsBatch(dupID)
     /\ messageIDCompare(c.lastCumulativeAck, dupID) < 0)
        => (replyDup <=> dupID.batchIdx \in BufferedIdx(c, dupID))

\* Indices 0 and 2 of the batch of 3 are in the buffer; the loop answers that
\* index 1 is not a duplicate.
PerIndexDuplicateWitness ==
    /\ loopPc = "replyDup"
    /\ dupID.batchSize = 3
    /\ dupID.batchIdx = 1
    /\ messageIDCompare(c.lastCumulativeAck, dupID) < 0
    /\ BufferedIdx(c, dupID) = {0, 2}
    /\ ~replyDup

\* C8, as claimed: between two events the pending-ack index holds no bitset
\* whose bits are all 0.
NoAllZeroEntry ==
    loopPc = "select" =>
        \A key \in DOMAIN c.pendingAcks :
            c.pendingAcks[key].isNil \/ c.pendingAcks[key].bits # {}

\* C8, amended: between two events a bitset whose bits are all 0 is in the
\* pending-ack index only while ids of its position wait in the buffer; the
\* flush that sends them removes it.
AllZeroOnlyWhileBuffered ==
    loopPc = "select" =>
        \A key \in DOMAIN c.pendingAcks :
            (~c.pendingAcks[key].isNil /\ c.pendingAcks[key].bits = {})
                => \E id \in Buffered(c) : messageIDHash(id) = key

\* Every index of a batch has been added and none flushed: its bitset is all
\* 0 and still in the index.
AllZeroWitness ==
    /\ loopPc = "select"
    /\ \E id \in Buffered(c) :
        /\ messageIDIsBatch(id)
        /\ BufferedIdx(c, id) = 0..(id.batchSize - 1)
        /\ messageIDHash(id) \in DOMAIN c.pendingAcks
        /\ c.pendingAcks[messageIDHash(id)].bits = {}

\* C9: when flushAndClean is about to return, the buffer and the pending-ack
\* index are empty, the watermark is the earliest id, no cumulative ack is
\* required, and no id is a duplicate.
CleanResets ==
    (loopPc = "replyFlush" /\ flushType = "flushAndClean") =>
        /\ c.index = 0
        /\ \A i \in 0..(MaxSize - 1) : c.singleAcks[i] = NilMessageID
        /\ c.pendingAcks = <<>>
        /\ c.lastCumulativeAck = EarliestMessageID
        /\ ~c.cumulativeAckRequired
        /\ \A id \in MessageIDs : ~isDuplicate(c, id)

\* flushAndClean found one id duplicate through the watermark and another
\* through the pending-ack index.
CleanResetsWitness ==
    /\ loopPc = "replyFlush"
    /\ flushType = "flushAndClean"
    /\ \E a, b \in MessageIDs :
        /\ messageIDCompare(before.lastCumulativeAck, a) >= 0
        /\ messageIDCompare(before.lastCumulativeAck, b) < 0
        /\ b \in Buffered(before)
        /\ isDuplicate(before, a) /\ isDuplicate(before, b)
        /\ ~isDuplicate(c, a) /\ ~isDuplicate(c, b)

\* C10: when flush, flushAndClean or close is about to return, the callbacks
\* have received the buffered ids in order and then the watermark if it had
\* advanced; every id add accepted has been passed to ackIndividual.
FlushDeliversAll ==
    loopPc = "replyFlush" =>
        /\ c.acked = before.acked
               \o [i \in 1..before.index |-> Individual(before.singleAcks[i - 1])]
               \o (IF before.cumulativeAckRequired
                   THEN <<Cumulative(before.lastCumulativeAck)>> ELSE <<>>)
        /\ IndividualAcks(c.acked) = accepted
        /\ c.index = 0
        /\ ~c.cumulativeAckRequired

\* close found ids in the buffer and a watermark to send.
FlushDeliversAllWitness ==
    /\ loopPc = "replyFlush"
    /\ flushType = "flushAndClose"
    /\ before.index > 1
    /\ before.cumulativeAckRequired
    /\ Len(c.acked) = Len(before.acked) + before.index + 1

\* C11: with time-based flushing disabled, the cumulative-flush flag is
\* false between events, and an addCumulative(m) that advances the watermark
\* has ackCumulative(m) invoked within the handling of that event.
ImmediateCumulativeAck ==
    /\ [](maxTime <= 0 => ~c.cumulativeAckRequired)
    /\ [][(/\ maxTime <= 0
           /\ cums' = cums + 1
           /\ messageIDCompare(c.lastCumulativeAck, cumulated') < 0)
          => (/\ c'.lastCumulativeAck = cumulated'
              /\ c'.acked = Append(c.acked, Cumulative(cumulated')))]_vars

\* addCumulative(m1) then addCumulative(m2), m2 > m1, and nothing else:
\* ackCumulative has been invoked with m1 and then with m2.
ImmediateCumulativeAckWitness ==
    /\ maxTime = 0
    /\ loopPc = "select"
    /\ cums = 2
    /\ accepted = <<>>
    /\ Len(c.acked) = 2
    /\ c.acked[1].kind = "cumulative"
    /\ c.acked[2] = Cumulative(cumulated)
    /\ messageIDCompare(c.acked[1].id, c.acked[2].id) < 0
    /\ \A p \in Callers : cpc[p] = "idle"

\* What waits for a flush: buffered ids, or an advance of the watermark.
Unflushed == c.index > 0 \/ c.cumulativeAckRequired

\* C12: with MaxTime > 0, what add and addCumulative have left waiting is
\* eventually passed to the callbacks whether or not a caller acts again.
TimedFlush ==
    (maxTime > 0 /\ Unflushed) ~> ~Unflushed

\* C15: close is terminal.  The loop exits when its reply to a close has
\* been taken; from then on it stays exited, no callback is invoked and the
\* tracker's state does not change, nobody is waiting for a reply, and a
\* caller inside any method stays blocked at its send.
CloseIsTerminal ==
    /\ [](loopPc = "exited" => \A p \in Callers : cpc[p] # "receive")
    /\ [][(loopPc = "replyFlush" /\ flushType = "flushAndClose"
                                 /\ loopPc' # loopPc)
          => loopPc' = "exited"]_vars
    /\ [][loopPc = "exited"
          => (/\ loopPc' = "exited"
              /\ c' = c
              /\ timerOn' = timerOn
              /\ \A p \in Callers :
                     cpc[p] # "idle" => (cpc'[p] = cpc[p] /\ cop'[p] = cop[p]))]_vars

\* After close has returned one caller is blocked in add and another in
\* close.
CloseIsTerminalWitness ==
    /\ loopPc = "exited"
    /\ \E p, q \in Callers :
        /\ cpc[p] = "send" /\ cop[p] = "add"
        /\ cpc[q] = "send" /\ cop[q] = "close"

\* C16: a flush of individual acks deletes the pending-ack entry of every
\* id it sends, a partially acknowledged batch included: after the event
\* that passed an id to ackIndividual, the id's position has no entry in the
\* pending-ack index, and every id of that position is a duplicate exactly if
\* the watermark covers it.
FlushDeletesEntries ==
    [][\A i \in (Len(c.acked) + 1)..Len(c'.acked) :
           c'.acked[i].kind = "individual" =>
               /\ messageIDHash(c'.acked[i].id) \notin DOMAIN c'.pendingAcks
               /\ \A x \in MessageIDs :
                      SamePosition(x, c'.acked[i].id) =>
                          (isDuplicate(c', x)
                              <=> messageIDCompare(c'.lastCumulativeAck, x) >= 0)]_vars

\* flush found one index of a batch in the buffer, a duplicate, with other
\* bits of its entry still set; the entry is gone and the id is no longer a
\* duplicate.
FlushDeletesEntriesWitness ==
    /\ loopPc = "replyFlush"
    /\ flushType = "flushOnly"
    /\ \E id \in Buffered(before) :
        /\ messageIDIsBatch(id)
        /\ BufferedIdx(before, id) = {id.batchIdx}
        /\ before.pendingAcks[messageIDHash(id)].bits # {}
        /\ isDuplicate(before, id)
        /\ messageIDHash(id) \notin DOMAIN c.pendingAcks
        /\ ~isDuplicate(c, id)

\* The step is the loop serving a flushAndClean.
Cleans ==
    loopPc = "select" /\ loopPc' = "replyFlush" /\ flushType' = "flushAndClean"

\* C17: cumulative acks only move forward.  Between two cleans the watermark
\* never decreases and changes only when addCumulative receives a strictly
\* greater id, which it becomes; each id passed to ackCumulative is the
\* watermark and is strictly greater than the one passed before it since the
\* last clean; the flag is set exactly while the watermark is ahead of the
\* latest id passed to ackCumulative, so no watermark value is sent twice.
CumulativeForward ==
    /\ [](/\ messageIDCompare(cumAcked, c.lastCumulativeAck) <= 0
          /\ c.cumulativeAckRequired
                 <=> messageIDCompare(cumAcked, c.lastCumulativeAck) < 0)
    /\ [][~Cleans =>
            /\ messageIDCompare(c.lastCumulativeAck, c'.lastCumulativeAck) <= 0
            /\ c'.lastCumulativeAck # c.lastCumulativeAck =>
                   /\ cums' = cums + 1
                   /\ c'.lastCumulativeAck = cumulated'
                   /\ messageIDCompare(c.lastCumulativeAck, cumulated') < 0]_vars
    /\ [][\A i \in (Len(c.acked) + 1)..Len(c'.acked) :
              c'.acked[i].kind = "cumulative" =>
                  /\ i = Len(c'.acked)
                  /\ messageIDCompare(cumAcked, c'.acked[i].id) < 0
                  /\ c'.acked[i].id = IF Cleans THEN c.lastCumulativeAck
                                      ELSE c'.lastCumulativeAck]_vars

\* Three calls of addCumulative with immediate flushing, the last with an id
\* below the watermark: ackCumulative was invoked twice, with increasing ids.
CumulativeForwardWitness ==
    /\ maxTime = 0
    /\ cums = 3
    /\ loopPc = "select"
    /\ Len(c.acked) = 2
    /\ c.acked[1].kind = "cumulative"
    /\ c.acked[2].kind = "cumulative"
    /\ messageIDCompare(c.acked[1].id, c.acked[2].id) < 0
    /\ messageIDCompare(cumulated, c.lastCumulativeAck) < 0
    /\ cumAcked = c.lastCumulativeAck

\* The callers blocked at the receive of a reply.
Receivers == {p \in Callers : cpc[p] = "receive"}

\* C18: replies are never crossed between concurrent callers.  At most one
\* caller waits at a reply channel, and only while the loop is sending a
\* reply; a reply on duplicateResultCh is the answer for that caller's own id
\* against the cachedAcks as all accepted events have left it; a reply on
\* waitFlushCh follows a flush of everything accepted, done for that caller's
\* own request.
RepliesNotCrossed ==
    /\ Cardinality(Receivers) <= 1
    /\ loopPc \in {"select", "exited"} => Receivers = {}
    /\ loopPc = "replyDup" =>
           \E p \in Receivers :
               /\ cop[p] = "isDuplicate"
               /\ cid[p] = dupID
               /\ replyDup = isDuplicate(c, cid[p])
    /\ loopPc = "replyFlush" =>
           \E p \in Receivers :
               /\ cop[p] \in {"flush", "flushAndClean", "close"}
               /\ flushType = FlushTypeOf(cop[p])
               /\ c.index = 0
               /\ ~c.cumulativeAckRequired
               /\ IndividualAcks(c.acked) = accepted
               /\ cop[p] = "flushAndClean" => c.pendingAcks = <<>>

\* One caller is taking the answer true for its id while a second caller is
\* blocked in isDuplicate and would be answered false.
RepliesNotCrossedWitness ==
    \E p, q \in Callers :
        /\ loopPc = "replyDup"
        /\ cpc[p] = "receive" /\ cop[p] = "isDuplicate"
        /\ replyDup
        /\ cpc[q] = "send" /\ cop[q] = "isDuplicate"
        /\ \E id \in FewMessageIDs : ~isDuplicate(c, id)

\* C19: the cursor of the ring buffer stays in bounds: in every state of the
\* loop 0 <= index < MaxSize, so the next addAndCheckIfFull writes inside
\* singleAcks.
IndexInBounds ==
    /\ 0 <= c.index
    /\ c.index < MaxSize
    /\ DOMAIN c.singleAcks = 0..(MaxSize - 1)

\* The last slot of singleAcks has been written and the cursor is back at 0.
IndexInBoundsWitness ==
    /\ loopPc = "select"
    /\ Len(accepted) = MaxSize
    /\ c.singleAcks[MaxSize - 1] = accepted[MaxSize]
    /\ c.index = 0

\* C20: grouping neither loses, duplicates nor reorders individual acks.  The
\* ids passed to ackIndividual are always a prefix of the ids accepted by
\* add, in the same order; the rest are exactly the ids waiting in the
\* buffer, in order; and when flush, flushAndClean or close is about to
\* return, and once the loop has exited, the two sequences are equal.
AcksInOrder ==
    LET sent == IndividualAcks(c.acked)
    IN  /\ Len(sent) <= Len(accepted)
        /\ sent = SubSeq(accepted, 1, Len(sent))
        /\ c.index = Len(accepted) - Len(sent)
        /\ \A i \in 1..c.index : c.singleAcks[i - 1] = accepted[Len(sent) + i]
        /\ loopPc \in {"replyFlush", "exited"} => sent = accepted

\* The same id was added twice, around another one; the timer has sent the
\* first two and the third waits in the buffer.
AcksInOrderWitness ==
    /\ Len(accepted) = 3
    /\ accepted[1] = accepted[3]
    /\ accepted[1] # accepted[2]
    /\ IndividualAcks(c.acked) = SubSeq(accepted, 1, 2)
    /\ c.index = 1
    /\ timerOn

====
